---- MODULE Spec2Model ----
(***************************************************************************)
(* A model of dynagrpc's GrpcTypeCastRegistry (src/dynagrpc/__init__.py):  *)
(* the seven namespace stores, the in-progress set, the registration       *)
(* protocol as a call-stack machine, the two conversion entry points, and  *)
(* the pure helpers pascal2snake and create_enum_dict.                     *)
(*                                                                         *)
(* Strings that the code slices or tests with startswith (enum type names  *)
(* and enum value names) are sequences of one-character strings; names     *)
(* that are only used as dictionary keys are plain strings.                *)
(***************************************************************************)
EXTENDS Integers, Sequences, FiniteSets, TLC

VARIABLES m2p, p2m, f2p, p2f, i2s, s2i, c, registering,
          stack, exc, ret, faults, locking

vars == <<m2p, p2m, f2p, p2f, i2s, s2i, c, registering,
          stack, exc, ret, faults, locking>>

stores == <<m2p, p2m, f2p, p2f, i2s, s2i, c>>

-----------------------------------------------------------------------------
(* Bounds of the model.                                                    *)

\* How many exceptions the environment may raise inside registration steps.
MaxFaults == 1

\* Longest Node chain among the message instances handed to the converters.
MaxChain == 3

\* Most values in an enum handed to create_enum_dict.
MaxEnumValues == 2

\* The longest name pascal2snake is called with, besides the named examples.
MaxNameLen == 4

-----------------------------------------------------------------------------
(* Characters and strings.                                                 *)

UpperChars == <<"A","B","C","D","E","F","G","H","I","J","K","L","M",
                "N","O","P","Q","R","S","T","U","V","W","X","Y","Z">>

LowerChars == <<"a","b","c","d","e","f","g","h","i","j","k","l","m",
                "n","o","p","q","r","s","t","u","v","w","x","y","z">>

UpperSet == {UpperChars[i] : i \in 1..26}

LowerSet == {LowerChars[i] : i \in 1..26}

ToUpper == [ch \in LowerSet |-> UpperChars[CHOOSE i \in 1..26 : LowerChars[i] = ch]]

ToLower == [ch \in UpperSet |-> LowerChars[CHOOSE i \in 1..26 : UpperChars[i] = ch]]

\* The character class [A-Z]
IsUpper(ch) == ch \in UpperSet

\* str.upper() and str.lower(), one character at a time.
UpperChar(ch) == IF ch \in LowerSet THEN ToUpper[ch] ELSE ch

LowerChar(ch) == IF ch \in UpperSet THEN ToLower[ch] ELSE ch

Upper(s) == [i \in 1..Len(s) |-> UpperChar(s[i])]

Lower(s) == [i \in 1..Len(s) |-> LowerChar(s[i])]

\* str.startswith
StartsWith(s, p) == Len(p) <= Len(s) /\ SubSeq(s, 1, Len(p)) = p

\* s[n:]
DropPrefix(s, n) == SubSeq(s, n + 1, Len(s))

RECURSIVE Join(_, _)
\* sep.join(parts)
Join(sep, parts) ==
    IF parts = <<>> THEN <<>>
    ELSE IF Len(parts) = 1 THEN parts[1]
    ELSE parts[1] \o sep \o Join(sep, Tail(parts))

RECURSIVE FindSegments(_)
\* re.findall("[A-Z][^A-Z]*", name): the characters before the first
\* upper-case letter belong to no match.
FindSegments(name) ==
    IF name = <<>> THEN <<>>
    ELSE IF ~IsUpper(name[1]) THEN FindSegments(Tail(name))
    ELSE LET rest == Tail(name)
             stop == IF \E i \in 1..Len(rest) : IsUpper(rest[i])
                     THEN CHOOSE i \in 1..Len(rest) :
                              /\ IsUpper(rest[i])
                              /\ \A j \in 1..(i - 1) : ~IsUpper(rest[j])
                     ELSE Len(rest) + 1
         IN  <<SubSeq(name, 1, stop)>> \o FindSegments(SubSeq(rest, stop, Len(rest)))

RECURSIVE GroupByLen(_)
\* itertools.groupby(segments, len): maximal runs of equal length.
GroupByLen(segs) ==
    IF segs = <<>> THEN <<>>
    ELSE LET n   == Len(segs[1])
             run == IF \E i \in 1..Len(segs) : Len(segs[i]) # n
                    THEN (CHOOSE i \in 1..Len(segs) :
                              /\ Len(segs[i]) # n
                              /\ \A j \in 1..(i - 1) : Len(segs[j]) = n) - 1
                    ELSE Len(segs)
         IN  <<[length |-> n, group |-> SubSeq(segs, 1, run)]>>
                 \o GroupByLen(SubSeq(segs, run + 1, Len(segs)))

GroupSepMutant(length) == IF length = 1 THEN <<"_">> ELSE <<>>

\* The separator pascal2snake uses inside one group.
GroupSep(length) == IF length = 1 THEN <<>> ELSE <<"_">>

pascal2snake(name) ==
    LET groups == GroupByLen(FindSegments(name))
    IN  Join(<<"_">>,
             [i \in 1..Len(groups) |->
                 Lower(Join(GroupSep(groups[i].length), groups[i].group))])

-----------------------------------------------------------------------------
(* create_enum_dict.                                                       *)

\* Python's None, where the code lets it stand for a string.
PyNone == <<"None">>

\* EnumDescriptor.values_by_number: descriptor.py keeps the first value
\* declared with a number.
ValuesByNumber(enum_type) ==
    LET vs == enum_type.values
    IN  [n \in {vs[i].number : i \in 1..Len(vs)} |->
            vs[CHOOSE i \in 1..Len(vs) :
                   /\ vs[i].number = n
                   /\ \A j \in 1..(i - 1) : vs[j].number # n]]

\* EnumDescriptor.values_by_name
ValuesByName(enum_type) ==
    LET vs == enum_type.values
    IN  [nm \in {vs[i].name : i \in 1..Len(vs)} |->
            vs[CHOOSE i \in 1..Len(vs) : vs[i].name = nm]]

CommonPrefixMutant(enum_type, prefix) ==
    IF prefix = PyNone THEN <<>> ELSE prefix

\* The prefix in force: explicit, or derived from the enum's name.
CommonPrefix(enum_type, prefix) ==
    IF prefix = PyNone THEN Upper(pascal2snake(enum_type.name)) \o <<"_">>
    ELSE prefix

AllStartWithMutant(enum_type, common) ==
    \E i \in 1..Len(enum_type.values) :
        StartsWith(enum_type.values[i].name, common)

AllStartWith(enum_type, common) ==
    \A i \in 1..Len(enum_type.values) :
        StartsWith(enum_type.values[i].name, common)

ThresholdMutant(enum_type, prefix) ==
    IF /\ AllStartWith(enum_type, CommonPrefix(enum_type, prefix))
       /\ CommonPrefix(enum_type, prefix) # <<>>
    THEN Len(CommonPrefix(enum_type, prefix)) - 1
    ELSE 0

\* The number of leading characters create_enum_dict removes.
Threshold(enum_type, prefix) ==
    IF AllStartWith(enum_type, CommonPrefix(enum_type, prefix))
    THEN Len(CommonPrefix(enum_type, prefix))
    ELSE 0

Int2Str(enum_type, threshold) ==
    LET byNumber == ValuesByNumber(enum_type)
    IN  [n \in DOMAIN byNumber |-> DropPrefix(byNumber[n].name, threshold)]

Str2IntMutant(enum_type, threshold) ==
    LET vs == enum_type.values
    IN  [nm \in {vs[i].name : i \in 1..Len(vs)} |->
            vs[CHOOSE i \in 1..Len(vs) : vs[i].name = nm].number]

\* A dict comprehension keeps the last value written under a key.
Str2Int(enum_type, threshold) ==
    LET vs == enum_type.values
    IN  [nm \in {DropPrefix(vs[i].name, threshold) : i \in 1..Len(vs)} |->
            vs[CHOOSE i \in 1..Len(vs) :
                   /\ DropPrefix(vs[i].name, threshold) = nm
                   /\ \A j \in (i + 1)..Len(vs) :
                          DropPrefix(vs[j].name, threshold) # nm].number]

\* The outcome of create_enum_dict(enum_type, mode, prefix): the exception
\* raised ("none" when it returns) and what its message says, whether the
\* advisory was emitted, and the dictionary returned.
create_enum_dict(enum_type, mode, prefix) ==
    LET common == CommonPrefix(enum_type, prefix)
        ok     == AllStartWith(enum_type, common)
        th     == Threshold(enum_type, prefix)
    IN  IF ~ok /\ prefix # PyNone
        THEN [raised |-> "ValueError", why |-> "prefix is not common",
              warned |-> FALSE, value |-> <<>>]
        ELSE IF mode = "int2str"
        THEN [raised |-> "none", why |-> "none", warned |-> ~ok,
              value |-> Int2Str(enum_type, th)]
        ELSE IF mode = "str2int"
        THEN [raised |-> "none", why |-> "none", warned |-> ~ok,
              value |-> Str2Int(enum_type, th)]
        ELSE [raised |-> "ValueError", why |-> "unknown mode",
              warned |-> ~ok, value |-> <<>>]

-----------------------------------------------------------------------------
(* The enum descriptors handed to create_enum_dict.                        *)

EnumTypeNames == {<<"C","o","l","o","r">>, <<"N","u","l","l","V","a","l","u","e">>}

ValueNames == {<<"C","O","L","O","R","_","R","E","D">>,
               <<"C","O","L","O","R","_","B","L","U","E">>,
               <<"C","O","L","O","R","_">>,
               <<"R","E","D">>,
               <<"B","L","U","E">>}

ValueNumbers == {0, 1}

EnumValues == [name : ValueNames, number : ValueNumbers]

\* Value lists with distinct names, as protoc requires.
ValueLists ==
    UNION {{vs \in [1..n -> EnumValues] :
                \A i, j \in 1..n : i # j => vs[i].name # vs[j].name}
           : n \in 0..MaxEnumValues}

EnumInputs == [name : EnumTypeNames, values : ValueLists]

Modes == {"int2str", "str2int", "bogus"}

Prefixes == {PyNone, <<>>, <<"C","O","L","O","R","_">>, <<"X","_">>}

NoAlias(enum_type) ==
    \A i, j \in 1..Len(enum_type.values) :
        i # j => enum_type.values[i].number # enum_type.values[j].number

-----------------------------------------------------------------------------
(* The schema descriptors the registry is called with (read-only input).   *)
(*                                                                         *)
(*   message Node { int32 value; Node next; }                              *)
(*   message A    { B b; }                                                 *)
(*   message B    { repeated A a; Color color;                             *)
(*                  google.protobuf.Timestamp ts;                          *)
(*                  map<string, Node> tags; }                              *)
(*   enum Color   { COLOR_RED = 0; COLOR_BLUE = 1; }                       *)

NoType == ""

Scalar(full_name, name) ==
    [name |-> name, full_name |-> full_name, kind |-> "scalar",
     repeated |-> FALSE, message_type |-> NoType, enum_type |-> NoType]

Enum(full_name, name, et) ==
    [name |-> name, full_name |-> full_name, kind |-> "enum",
     repeated |-> FALSE, message_type |-> NoType, enum_type |-> et]

Msg(full_name, name, rep, sub) ==
    [name |-> name, full_name |-> full_name, kind |-> "message",
     repeated |-> rep, message_type |-> sub, enum_type |-> NoType]

\* Descriptor.fields, in declaration order.
Fields(mt) ==
    CASE mt = "pkg.Node" ->
           <<Scalar("pkg.Node.value", "value"),
             Msg("pkg.Node.next", "next", FALSE, "pkg.Node")>>
      [] mt = "pkg.A" ->
           <<Msg("pkg.A.b", "b", FALSE, "pkg.B")>>
      [] mt = "pkg.B" ->
           <<Msg("pkg.B.a", "a", TRUE, "pkg.A"),
             Enum("pkg.B.color", "color", "pkg.Color"),
             Msg("pkg.B.ts", "ts", FALSE, "google.protobuf.Timestamp"),
             Msg("pkg.B.tags", "tags", TRUE, "pkg.B.TagsEntry")>>
      [] mt = "pkg.B.TagsEntry" ->
           <<Scalar("pkg.B.TagsEntry.key", "key"),
             Msg("pkg.B.TagsEntry.value", "value", FALSE, "pkg.Node")>>
      [] mt = "google.protobuf.Timestamp" ->
           <<Scalar("google.protobuf.Timestamp.seconds", "seconds"),
             Scalar("google.protobuf.Timestamp.nanos", "nanos")>>
      [] mt = "google.protobuf.Int32Value" ->
           <<Scalar("google.protobuf.Int32Value.value", "value")>>
      [] OTHER -> <<>>

\* Descriptor.GetOptions().map_entry
MapEntry(mt) == mt = "pkg.B.TagsEntry"

UserMessages == {"pkg.Node", "pkg.A", "pkg.B"}

AllMessages ==
    UserMessages \cup {"pkg.B.TagsEntry", "google.protobuf.Timestamp",
                       "google.protobuf.Int32Value"}

AllFields ==
    UNION {{Fields(mt)[i] : i \in 1..Len(Fields(mt))} : mt \in AllMessages}

FieldByName(fn) == CHOOSE f \in AllFields : f.full_name = fn

\* The message descriptors register_message_type is called with.
MessageCalls ==
    UserMessages \cup {"google.protobuf.Timestamp", "google.protobuf.Int32Value"}

\* The field descriptors register_field_type is called with directly.
FieldCalls == {"pkg.Node.next"}

\* The enum descriptors register_enum_type is called with.
EnumDescriptor(et) ==
    CASE et = "pkg.Color" ->
           [name |-> <<"C","o","l","o","r">>, full_name |-> et,
            values |-> <<[name |-> <<"C","O","L","O","R","_","R","E","D">>, number |-> 0],
                         [name |-> <<"C","O","L","O","R","_","B","L","U","E">>, number |-> 1]>>]
      [] et = "google.protobuf.NullValue" ->
           [name |-> <<"N","u","l","l","V","a","l","u","e">>, full_name |-> et,
            values |-> <<[name |-> <<"N","U","L","L","_","V","A","L","U","E">>, number |-> 0]>>]
      [] et = "alt.Color" ->
           [name |-> <<"C","o","l","o","r">>, full_name |-> et,
            values |-> <<[name |-> <<"R","E","D">>, number |-> 0],
                         [name |-> <<"B","L","U","E">>, number |-> 1]>>]

Enums == {"pkg.Color", "google.protobuf.NullValue"}

\* An enum that does not follow the prefix convention:
\* enum Color { RED = 0; BLUE = 1; } of another package.
UnprefixedEnums == {"alt.Color"}

\* _astcast.GOOGLE_PROTOBUF_WRAPPERS: the message types of wrappers.proto.
GOOGLE_PROTOBUF_WRAPPERS ==
    {"google.protobuf.DoubleValue", "google.protobuf.FloatValue",
     "google.protobuf.Int64Value", "google.protobuf.UInt64Value",
     "google.protobuf.Int32Value", "google.protobuf.UInt32Value",
     "google.protobuf.BoolValue", "google.protobuf.StringValue",
     "google.protobuf.BytesValue"}

\* The types _register_google_types registers a failure for.
NotImplementedTypes ==
    {"google.protobuf.ListValue", "google.protobuf.Struct",
     "google.protobuf.Value", "google.protobuf.Any",
     "google.protobuf.Duration", "google.protobuf.FieldMask",
     "google.protobuf.Timestamp"}

-----------------------------------------------------------------------------
(* The registry: GrpcTypeCastRegistry.                                     *)

Threads == {1, 2}

\* The thread of the single-threaded specifications.
MainThread == 1

PutMutant(d, k, v) == [x \in {k} |-> v]

\* dict[k] = v
Put(d, k, v) == [x \in DOMAIN d \cup {k} |-> IF x = k THEN v ELSE d[x]]

EmptyDict == [x \in {} |-> x]

\* The callables the code stores, by what builds them and for which schema.
AttrGetter(attr)        == [kind |-> "attrgetter", of |-> attr]
NamedFail(full_name)    == [kind |-> "fail", of |-> full_name]
WrapperLambda(full_name) == [kind |-> "wrapper2message", of |-> full_name]
M2pLambda(full_name)    == [kind |-> "message2dict", of |-> full_name]
P2mLambda(full_name)    == [kind |-> "dict2message", of |-> full_name]
FieldLambdaMutant(msg_regname, enum_regname, field) ==
    LET f     == FieldByName(field)
        bound == f.kind # "enum"
                     \/ f.enum_type \in DOMAIN (IF enum_regname = "i2s" THEN i2s ELSE s2i)
    IN  [kind |-> "field_cast", of |-> field, msg_regname |-> msg_regname,
         enum_regname |-> IF bound THEN enum_regname
                          ELSE IF enum_regname = "i2s" THEN "s2i" ELSE "i2s"]

FieldLambda(msg_regname, enum_regname, field) ==
    [kind |-> "field_cast", of |-> field,
     msg_regname |-> msg_regname, enum_regname |-> enum_regname]
ConcreteClass(full_name) == [kind |-> "class", of |-> full_name]

\* No outcome of a public call is waiting for the caller.
NoCall == [op |-> "none"]

\* The caller of thread t may make its next call.
Ready(t) == stack[t] = <<>> /\ ret[t] = NoCall

\* __init__ followed by _register_google_types
Constructed ==
    /\ m2p = [n \in GOOGLE_PROTOBUF_WRAPPERS \cup NotImplementedTypes |->
                 IF n \in GOOGLE_PROTOBUF_WRAPPERS THEN AttrGetter("value")
                 ELSE NamedFail(n)]
    /\ p2m = [n \in GOOGLE_PROTOBUF_WRAPPERS \cup NotImplementedTypes |->
                 IF n \in GOOGLE_PROTOBUF_WRAPPERS THEN WrapperLambda(n)
                 ELSE NamedFail(n)]
    /\ f2p = EmptyDict
    /\ p2f = EmptyDict
    /\ i2s = [n \in {"google.protobuf.NullValue"} |-> [k \in {0} |-> PyNone]]
    /\ s2i = [n \in {"google.protobuf.NullValue"} |-> [k \in {PyNone} |-> 0]]
    /\ c = [n \in GOOGLE_PROTOBUF_WRAPPERS |-> ConcreteClass(n)]
    /\ registering = {}
    /\ stack = [t \in Threads |-> <<>>]
    /\ exc = [t \in Threads |-> "none"]
    /\ ret = [t \in Threads |-> NoCall]
    /\ faults = 0

\* A fresh registry whose callers use no lock.
Init == Constructed /\ locking = FALSE

Idle(t) == stack[t] = <<>>

Top(t) == stack[t][Len(stack[t])]

Frame(fn, arg) == [fn |-> fn, arg |-> arg, pc |-> "check", i |-> 0]

\* The top frame of thread t moves on within its function.
Goto(t, pc) == [stack EXCEPT ![t][Len(stack[t])].pc = pc]

\* The top frame of thread t calls fn(arg) and will resume at pc.
CallFrom(t, pc, fn, arg) ==
    [stack EXCEPT ![t] = Append(Goto(t, pc)[t], Frame(fn, arg))]

\* The top frame of thread t ends, returning (e = "none") or raising e; the
\* outcome of a public call is recorded when its frame, the bottom one, ends.
Pop(t, e) ==
    LET rest == SubSeq(stack[t], 1, Len(stack[t]) - 1)
    IN  /\ stack' = [stack EXCEPT ![t] = rest]
        /\ IF rest = <<>>
           THEN /\ exc' = [exc EXCEPT ![t] = "none"]
                /\ ret' = [ret EXCEPT ![t] =
                              [op |-> stack[t][1].fn, arg |-> stack[t][1].arg,
                               outcome |-> IF e = "none" THEN "returned" ELSE e]]
           ELSE /\ exc' = [exc EXCEPT ![t] = e]
                /\ ret' = ret

Running(t, fn, pc) ==
    /\ ~Idle(t)
    /\ exc[t] = "none"
    /\ Top(t).fn = fn
    /\ Top(t).pc = pc

(* register_enum_type *)

register_enum_type(t, et) ==
    LET int2str == create_enum_dict(EnumDescriptor(et), "int2str", PyNone)
        str2int == create_enum_dict(EnumDescriptor(et), "str2int", PyNone)
    IN  /\ Ready(t)
        /\ i2s' = IF int2str.raised = "none" THEN Put(i2s, et, int2str.value)
                  ELSE i2s
        /\ s2i' = IF int2str.raised = "none" /\ str2int.raised = "none"
                  THEN Put(s2i, et, str2int.value)
                  ELSE s2i
        /\ ret' = [ret EXCEPT ![t] =
                      [op |-> "register_enum_type", arg |-> et,
                       outcome |-> IF /\ int2str.raised = "none"
                                      /\ str2int.raised = "none"
                                   THEN "returned" ELSE "raised"]]
        /\ UNCHANGED <<m2p, p2m, f2p, p2f, c, registering, stack, exc, faults, locking>>

(* register_message_type *)

call_register_message_type(t, mt) ==
    /\ Ready(t)
    /\ stack' = [stack EXCEPT ![t] = <<Frame("register_message_type", mt)>>]
    /\ UNCHANGED <<stores, registering, exc, ret, faults, locking>>

AlreadyRegisteredMutant(full_name) == full_name \in DOMAIN c

NeverRegisteredMutant(full_name) == FALSE

\* if full_name in self._namespace.m2p
AlreadyRegistered(full_name) == full_name \in DOMAIN m2p

\* The early return, or on to the registration body.
rm_check(t) ==
    /\ Running(t, "register_message_type", "check")
    /\ IF AlreadyRegistered(Top(t).arg)
       THEN Pop(t, "none")
       ELSE stack' = Goto(t, "add") /\ UNCHANGED <<exc, ret>>
    /\ UNCHANGED <<stores, registering, faults, locking>>

\* self._registering.add(message_type)
rm_add(t) ==
    /\ Running(t, "register_message_type", "add")
    /\ registering' = registering \cup {Top(t).arg}
    /\ stack' = Goto(t, "m2p")
    /\ UNCHANGED <<stores, exc, ret, faults, locking>>

rm_m2pMutant(t) ==
    /\ Running(t, "register_message_type", "m2p")
    /\ stack' = Goto(t, "p2m")
    /\ UNCHANGED <<stores, registering, exc, ret, faults, locking>>

\* self._namespace.m2p[full_name] = create_lambda(...)
rm_m2p(t) ==
    /\ Running(t, "register_message_type", "m2p")
    /\ m2p' = Put(m2p, Top(t).arg, M2pLambda(Top(t).arg))
    /\ stack' = Goto(t, "p2m")
    /\ UNCHANGED <<p2m, f2p, p2f, i2s, s2i, c, registering, exc, ret, faults, locking>>

\* self._namespace.p2m[full_name] = create_lambda(...)
rm_p2m(t) ==
    /\ Running(t, "register_message_type", "p2m")
    /\ p2m' = Put(p2m, Top(t).arg, P2mLambda(Top(t).arg))
    /\ stack' = Goto(t, "fields")
    /\ UNCHANGED <<m2p, f2p, p2f, i2s, s2i, c, registering, exc, ret, faults, locking>>

\* for field in message_type.fields: self.register_field_type(field)
rm_fields(t) ==
    /\ Running(t, "register_message_type", "fields")
    /\ LET fs == Fields(Top(t).arg)
           i  == Top(t).i
       IN  IF i < Len(fs)
           THEN stack' = [stack EXCEPT
                    ![t] = Append([stack[t] EXCEPT ![Len(stack[t])].i = i + 1],
                                  Frame("register_field_type", fs[i + 1].full_name))]
           ELSE stack' = Goto(t, "c")
    /\ UNCHANGED <<stores, registering, exc, ret, faults, locking>>

\* self._namespace.c[full_name] = message_type._concrete_class
rm_c(t) ==
    /\ Running(t, "register_message_type", "c")
    /\ c' = Put(c, Top(t).arg, ConcreteClass(Top(t).arg))
    /\ stack' = Goto(t, "finally")
    /\ UNCHANGED <<m2p, p2m, f2p, p2f, i2s, s2i, registering, exc, ret, faults, locking>>

\* finally: self._registering.remove(message_type), which raises KeyError
\* when the element is not in the set; then the pending exception, if any,
\* goes on to the caller.
rm_finallyMutant(t) ==
    /\ ~Idle(t)
    /\ Top(t).fn = "register_message_type"
    /\ Top(t).pc = "finally"
    /\ registering' = IF exc[t] = "none" THEN registering \ {Top(t).arg}
                      ELSE registering
    /\ Pop(t, IF Top(t).arg \in registering THEN exc[t] ELSE "KeyError")
    /\ UNCHANGED <<stores, faults, locking>>

rm_finally(t) ==
    /\ ~Idle(t)
    /\ Top(t).fn = "register_message_type"
    /\ Top(t).pc = "finally"
    /\ registering' = registering \ {Top(t).arg}
    /\ Pop(t, IF Top(t).arg \in registering THEN exc[t] ELSE "KeyError")
    /\ UNCHANGED <<stores, faults, locking>>

(* register_field_type *)

call_register_field_type(t, fn) ==
    /\ Ready(t)
    /\ stack' = [stack EXCEPT ![t] = <<Frame("register_field_type", fn)>>]
    /\ UNCHANGED <<stores, registering, exc, ret, faults, locking>>

NeedsRegistrationMutant(mt) ==
    mt # NoType /\ ~MapEntry(mt)

\* mt and not (mt.GetOptions().map_entry or mt in self._registering)
NeedsRegistration(mt) ==
    mt # NoType /\ ~(MapEntry(mt) \/ mt \in registering)

rf_check(t) ==
    /\ Running(t, "register_field_type", "check")
    /\ LET mt == FieldByName(Top(t).arg).message_type
       IN  IF NeedsRegistration(mt)
           THEN stack' = CallFrom(t, "f2p", "register_message_type", mt)
           ELSE stack' = Goto(t, "f2p")
    /\ UNCHANGED <<stores, registering, exc, ret, faults, locking>>

\* registry[field.full_name] = create_lambda(...), first for f2p
rf_f2p(t) ==
    /\ Running(t, "register_field_type", "f2p")
    /\ f2p' = Put(f2p, Top(t).arg, FieldLambda("m2p", "i2s", Top(t).arg))
    /\ stack' = Goto(t, "p2f")
    /\ UNCHANGED <<m2p, p2m, p2f, i2s, s2i, c, registering, exc, ret, faults, locking>>

\* ... then for p2f
rf_p2f(t) ==
    /\ Running(t, "register_field_type", "p2f")
    /\ p2f' = Put(p2f, Top(t).arg, FieldLambda("p2m", "s2i", Top(t).arg))
    /\ Pop(t, "none")
    /\ UNCHANGED <<m2p, p2m, f2p, i2s, s2i, c, registering, faults, locking>>

\* The caller takes the outcome of its last call.
take(t) ==
    /\ Idle(t)
    /\ ret[t] # NoCall
    /\ ret' = [ret EXCEPT ![t] = NoCall]
    /\ UNCHANGED <<stores, registering, stack, exc, faults, locking>>

(* Exceptions *)

\* The statements of the registration body that build a converter or read
\* the concrete class: each may raise instead of storing its result.
CanRaise(frame) ==
    \/ frame.fn = "register_message_type" /\ frame.pc \in {"m2p", "p2m", "c"}
    \/ frame.fn = "register_field_type" /\ frame.pc \in {"f2p", "p2f"}

raise(t) ==
    /\ ~Idle(t)
    /\ exc[t] = "none"
    /\ CanRaise(Top(t))
    /\ faults < MaxFaults
    /\ faults' = faults + 1
    /\ exc' = [exc EXCEPT ![t] = "Error"]
    /\ UNCHANGED <<stores, registering, stack, ret, locking>>

\* An exception leaves register_field_type at once and takes
\* register_message_type to its finally clause.
unwind(t) ==
    /\ ~Idle(t)
    /\ exc[t] # "none"
    /\ \/ /\ Top(t).fn = "register_field_type"
          /\ Pop(t, exc[t])
       \/ /\ Top(t).fn = "register_message_type"
          /\ Top(t).pc # "finally"
          /\ stack' = Goto(t, "finally")
          /\ UNCHANGED <<exc, ret>>
    /\ UNCHANGED <<stores, registering, faults, locking>>

Register(t) ==
    \/ \E et \in Enums : register_enum_type(t, et)
    \/ \E mt \in MessageCalls : call_register_message_type(t, mt)
    \/ \E fn \in FieldCalls : call_register_field_type(t, fn)
    \/ rm_check(t)
    \/ rm_add(t)
    \/ rm_m2p(t)
    \/ rm_p2m(t)
    \/ rm_fields(t)
    \/ rm_c(t)
    \/ rm_finally(t)
    \/ rf_check(t)
    \/ rf_f2p(t)
    \/ rf_p2f(t)
    \/ raise(t)
    \/ unwind(t)
    \/ take(t)

-----------------------------------------------------------------------------
(* Values: protobuf messages on one side, Python objects on the other.     *)

None      == [k |-> "none"]
IntV(n)    == [k |-> "int", v |-> n]
StrV(s)    == [k |-> "str", v |-> s]
ListV(xs)  == [k |-> "list", v |-> xs]
MapV(m)    == [k |-> "map", v |-> m]
\* A message of type t with its field values f, by field name; an unset
\* singular message field holds None.
Message(t, f) == [k |-> "msg", t |-> t, f |-> f]
\* The container d(...) builds: key/value pairs in insertion order.
Dict(pairs) == [k |-> "dict", v |-> pairs]
\* An exception of class e raised with argument a.
Err(e, a) == [k |-> "err", e |-> e, a |-> a]

IsErr(v) == v.k = "err"

\* The first exception among the results of evaluating xs in order, or
\* the value built from them.
FirstErrOr(xs, built) ==
    IF \E i \in 1..Len(xs) : IsErr(xs[i])
    THEN xs[CHOOSE i \in 1..Len(xs) :
                IsErr(xs[i]) /\ \A j \in 1..(i - 1) : ~IsErr(xs[j])]
    ELSE built

Keys(d) == [i \in 1..Len(d.v) |-> d.v[i].key]

HasKey(d, key) == \E i \in 1..Len(d.v) : d.v[i].key = key

Get(d, key) == d.v[CHOOSE i \in 1..Len(d.v) : d.v[i].key = key].val

-----------------------------------------------------------------------------
(* The converters _astcast generates, run against the namespace as it is   *)
(* when they are called: every registry is looked up by name at call time. *)

Registry(regname) ==
    CASE regname = "m2p" -> m2p
      [] regname = "p2m" -> p2m
      [] regname = "i2s" -> i2s
      [] regname = "s2i" -> s2i

\* namespace[enum_regname][enum full name][value]
EnumCast(enum_regname, et, v) ==
    LET reg == Registry(enum_regname)
        key == IF enum_regname = "i2s" THEN v.v
               ELSE IF v.k = "none" THEN PyNone ELSE v.v
        typeOk == IF enum_regname = "i2s" THEN v.k = "int" ELSE v.k \in {"none", "str"}
    IN  IF et \notin DOMAIN reg THEN Err("KeyError", et)
        ELSE IF ~typeOk \/ key \notin DOMAIN reg[et] THEN Err("KeyError", et)
        ELSE IF enum_regname = "s2i" THEN IntV(reg[et][key])
        ELSE IF reg[et][key] = PyNone THEN None
        ELSE StrV(reg[et][key])

MessageToDictMutant(fs, out) ==
    Dict(SelectSeq([i \in 1..Len(fs) |-> [key |-> fs[i].name, val |-> out[i]]],
                   LAMBDA pair : pair.val # None))

\* message2dict_ast: one entry per field of the message, in declaration
\* order, whatever the field holds.
MessageToDict(fs, out) ==
    Dict([i \in 1..Len(fs) |-> [key |-> fs[i].name, val |-> out[i]]])

RECURSIVE Call(_, _, _)
RECURSIVE ValueCast(_, _, _, _)
RECURSIVE FieldCast(_, _)
RECURSIVE CallField(_, _, _)

\* field_cast_ast for one value of the field's type: a scalar passes
\* through, an enum goes through the enum registry, a message through the
\* message registry unless it is absent.
ValueCast(msg_regname, enum_regname, field, v) ==
    IF field.kind = "scalar" THEN v
    ELSE IF field.kind = "enum" THEN EnumCast(enum_regname, field.enum_type, v)
    ELSE IF v.k = "none" THEN None
    ELSE Call(msg_regname, field.message_type, v)

\* field_cast_ast: a map field casts each entry's value as the entry
\* type's value field, a repeated field casts each element, a singular
\* field casts the value.
FieldCast(lam, v) ==
    LET field == FieldByName(lam.of)
    IN  IF field.kind = "message" /\ MapEntry(field.message_type)
        THEN LET vf  == Fields(field.message_type)[2]
                 ks  == DOMAIN v.v
                 out == [x \in ks |->
                            ValueCast(lam.msg_regname, lam.enum_regname, vf, v.v[x])]
             IN  IF \E x \in ks : IsErr(out[x])
                 THEN out[CHOOSE x \in ks : IsErr(out[x])]
                 ELSE MapV(out)
        ELSE IF field.repeated
        THEN LET out == [i \in 1..Len(v.v) |->
                            ValueCast(lam.msg_regname, lam.enum_regname, field, v.v[i])]
             IN  FirstErrOr(out, ListV(out))
        ELSE ValueCast(lam.msg_regname, lam.enum_regname, field, v)

\* namespace[field_regname][field full name](value)
CallField(field_regname, fn, v) ==
    LET reg == IF field_regname = "f2p" THEN f2p ELSE p2f
    IN  IF fn \notin DOMAIN reg THEN Err("KeyError", fn)
        ELSE FieldCast(reg[fn], v)

\* namespace[regname][full_name](v), by the kind of callable stored there.
Call(regname, full_name, v) ==
    LET reg == Registry(regname)
    IN  IF full_name \notin DOMAIN reg THEN Err("KeyError", full_name)
        ELSE LET lam == reg[full_name]
                 fs  == Fields(lam.of)
             IN  CASE lam.kind = "attrgetter" -> v.f[lam.of]
                   [] lam.kind = "fail" -> Err("NotImplementedError", lam.of)
                   [] lam.kind = "wrapper2message" ->
                        IF lam.of \notin DOMAIN c THEN Err("KeyError", lam.of)
                        ELSE Message(c[lam.of].of, [n \in {"value"} |-> v])
                   [] lam.kind = "message2dict" ->
                        \* d({name: f2p[full name](msg.name), ...}), fields
                        \* in declaration order
                        LET out == [i \in 1..Len(fs) |->
                                       CallField("f2p", fs[i].full_name, v.f[fs[i].name])]
                        IN  FirstErrOr(out, MessageToDict(fs, out))
                   [] lam.kind = "dict2message" ->
                        \* c[full name](name=p2f[full name](data[name]), ...)
                        LET out == [i \in 1..Len(fs) |->
                                       IF ~HasKey(v, fs[i].name)
                                       THEN Err("KeyError", fs[i].name)
                                       ELSE CallField("p2f", fs[i].full_name,
                                                      Get(v, fs[i].name))]
                        IN  IF lam.of \notin DOMAIN c THEN Err("KeyError", lam.of)
                            ELSE FirstErrOr(out,
                                     Message(c[lam.of].of,
                                         [n \in {fs[i].name : i \in 1..Len(fs)} |->
                                             out[CHOOSE i \in 1..Len(fs) : fs[i].name = n]]))

-----------------------------------------------------------------------------
(* The values the conversion entry points are called with.                 *)

RECURSIVE Chain(_)
\* A chain of n Node messages; the last one holds the default value 0.
Chain(n) ==
    IF n = 0 THEN None
    ELSE Message("pkg.Node", [value |-> IntV(n - 1), next |-> Chain(n - 1)])

TimestampValue ==
    Message("google.protobuf.Timestamp", [seconds |-> IntV(1), nanos |-> IntV(0)])

Int32ValueValue == Message("google.protobuf.Int32Value", [value |-> IntV(5)])

AValue(b) == Message("pkg.A", [b |-> b])

BValue(a, color, ts, tags) ==
    Message("pkg.B", [a |-> ListV(a), color |-> IntV(color), ts |-> ts,
                      tags |-> MapV(tags)])

NodeValues == {Chain(n) : n \in 1..MaxChain}

BValues ==
    {BValue(a, color, ts, tags) :
        a \in {<<>>, <<AValue(None)>>}, color \in {0, 1},
        ts \in {None, TimestampValue},
        tags \in {EmptyDict, [x \in {"k"} |-> Chain(1)]}}

AValues ==
    {AValue(None), AValue(BValue(<<AValue(None)>>, 1, None, EmptyDict))}

\* The messages proto2py is called with.
MessageValues ==
    NodeValues \cup BValues \cup AValues \cup {TimestampValue, Int32ValueValue}

Pair(key, val) == [key |-> key, val |-> val]

\* The (message class, data) pairs py2proto is called with, besides the
\* containers proto2py returned.
DataValues ==
    {<<"pkg.Node", Dict(<<Pair("next", None), Pair("value", IntV(1))>>)>>,
     <<"pkg.Node", Dict(<<Pair("value", IntV(1))>>)>>,
     <<"pkg.B", Dict(<<Pair("a", ListV(<<>>)),
                       Pair("color", StrV(<<"R","E","D">>)),
                       Pair("ts", Dict(<<Pair("seconds", IntV(1)), Pair("nanos", IntV(0))>>)),
                       Pair("tags", MapV(EmptyDict))>>)>>,
     <<"google.protobuf.Timestamp",
       Dict(<<Pair("seconds", IntV(1)), Pair("nanos", IntV(0))>>)>>,
     <<"google.protobuf.Int32Value", IntV(5)>>}

-----------------------------------------------------------------------------
(* The conversion entry points.                                            *)

proto2pyMutant(t, message) ==
    /\ Ready(t)
    /\ ret' = [ret EXCEPT ![t] =
                  [op |-> "proto2py", cls |-> message.t, input |-> message,
                   result |-> IF message.t \in DOMAIN m2p
                              THEN Call("m2p", message.t, message)
                              ELSE None]]
    /\ UNCHANGED <<stores, registering, stack, exc, faults, locking>>

\* self._namespace.m2p[message.DESCRIPTOR.full_name](message)
proto2py(t, message) ==
    /\ Ready(t)
    /\ ret' = [ret EXCEPT ![t] =
                  [op |-> "proto2py", cls |-> message.t, input |-> message,
                   result |-> Call("m2p", message.t, message)]]
    /\ UNCHANGED <<stores, registering, stack, exc, faults, locking>>

py2protoMutant(t, message_cls, data, origin) ==
    /\ Idle(t)
    /\ ret' = [ret EXCEPT ![t] =
                  [op |-> "py2proto", cls |-> message_cls, input |-> data,
                   origin |-> origin,
                   result |-> Call("p2m", message_cls, data)]]
    /\ p2m' = IF message_cls \in DOMAIN p2m THEN p2m
              ELSE Put(p2m, message_cls, P2mLambda(message_cls))
    /\ UNCHANGED <<m2p, f2p, p2f, i2s, s2i, c, registering, stack, exc, faults, locking>>

\* self._namespace.p2m[message_cls.DESCRIPTOR.full_name](data); origin is
\* the message data was converted from, if it came out of proto2py.
py2proto(t, message_cls, data, origin) ==
    /\ Idle(t)
    /\ ret' = [ret EXCEPT ![t] =
                  [op |-> "py2proto", cls |-> message_cls, input |-> data,
                   origin |-> origin,
                   result |-> Call("p2m", message_cls, data)]]
    /\ UNCHANGED <<stores, registering, stack, exc, faults, locking>>

\* py2proto on data of the caller's own making.
convert_data(t) ==
    /\ ret[t] = NoCall
    /\ \E d \in DataValues : py2proto(t, d[1], d[2], None)

\* py2proto on the container the preceding proto2py call returned.
convert_back(t) ==
    /\ ret[t].op = "proto2py"
    /\ ~IsErr(ret[t].result)
    /\ py2proto(t, ret[t].cls, ret[t].result, ret[t].input)

Convert(t) ==
    \/ \E message \in MessageValues : proto2py(t, message)
    \/ convert_data(t)
    \/ convert_back(t)

Next == Register(MainThread) \/ Convert(MainThread)

Spec == Init /\ [][Next]_vars

\* A thread inside a call keeps executing its statements.
Step(t) ==
    \/ rm_check(t)
    \/ rm_add(t)
    \/ rm_m2p(t)
    \/ rm_p2m(t)
    \/ rm_fields(t)
    \/ rm_c(t)
    \/ rm_finally(t)
    \/ rf_check(t)
    \/ rf_f2p(t)
    \/ rf_p2f(t)
    \/ unwind(t)

SpecFair == Spec /\ WF_vars(Step(MainThread))

-----------------------------------------------------------------------------
(* Properties.                                                             *)

\* Every key of the dictionary old is in new with the same value.
Kept(old, new) == \A k \in DOMAIN old : k \in DOMAIN new /\ new[k] = old[k]

\* C1: in each of the seven stores, no step replaces the value of a key
\* that is already populated (first registration wins).
C1_NeverOverwritten ==
    [][/\ Kept(m2p, m2p') /\ Kept(p2m, p2m')
       /\ Kept(f2p, f2p') /\ Kept(p2f, p2f')
       /\ Kept(i2s, i2s') /\ Kept(s2i, s2i')
       /\ Kept(c, c')]_vars

\* The top frame of thread t is register_message_type, about to test
\* whether the full name of its argument has an m2p entry, and it has one.
AtCheckOfRegistered(t) ==
    /\ stack[t] # <<>>
    /\ Top(t).fn = "register_message_type"
    /\ Top(t).pc = "check"
    /\ Top(t).arg \in DOMAIN m2p

\* C2: register_message_type on a message whose full name has an m2p
\* entry returns normally at once and changes no store and not the
\* in-progress set.
C2_RegisteredIsNoOp ==
    [][\A t \in Threads :
          AtCheckOfRegistered(t) =>
              /\ UNCHANGED <<stores, registering>>
              /\ stack'[t] = SubSeq(stack[t], 1, Len(stack[t]) - 1)
              /\ exc'[t] = "none"
              /\ Len(stack[t]) = 1 =>
                     ret'[t] = [op |-> "register_message_type",
                                arg |-> stack[t][1].arg, outcome |-> "returned"]]_vars

\* register_message_type was called for the pre-populated Timestamp type and
\* returned.
C2_Witness ==
    \E t \in Threads :
        /\ ret[t].op = "register_message_type"
        /\ ret[t].arg = "google.protobuf.Timestamp"
        /\ ret[t].outcome = "returned"
        /\ registering = {}

\* C3: a register_message_type call that failed leaves no m2p entry for
\* its message, so that the next call registers it again.
C3_FailureLeavesNoEntry ==
    \A t \in Threads :
        (/\ ret[t].op = "register_message_type"
         /\ ret[t].outcome # "returned")
            => ret[t].arg \notin DOMAIN m2p

\* No message has two register_message_type activations on one call stack.
NoReentry ==
    \A t \in Threads : \A i, j \in 1..Len(stack[t]) :
        (/\ i < j
         /\ stack[t][i].fn = "register_message_type"
         /\ stack[t][j].fn = "register_message_type")
            => stack[t][i].arg # stack[t][j].arg

\* C4: every registration call terminates, and the recursion through
\* register_field_type never re-enters a message that is on the stack.
C4_Terminates ==
    /\ []NoReentry
    /\ \A t \in Threads : (stack[t] # <<>>) ~> (stack[t] = <<>>)

\* Registering A has reached B's field a, whose type A is in progress, and
\* register_field_type went on without calling register_message_type.
C4_Witness ==
    /\ Len(stack[MainThread]) = 4
    /\ stack[MainThread][1].arg = "pkg.A"
    /\ stack[MainThread][3].arg = "pkg.B"
    /\ stack[MainThread][4].arg = "pkg.B.a"
    /\ stack[MainThread][4].pc = "f2p"
    /\ "pkg.A" \in registering

\* The types pre-populated by _register_google_types.
BuiltIn(mt) == mt \in GOOGLE_PROTOBUF_WRAPPERS \cup NotImplementedTypes

\* The message types the fields of mt refer to: the type of a message
\* field, or for a map field the type of the entry's value.
Refs(mt) ==
    LET fs == Fields(mt)
    IN  {IF MapEntry(fs[i].message_type)
         THEN Fields(fs[i].message_type)[2].message_type
         ELSE fs[i].message_type :
            i \in {j \in 1..Len(fs) : fs[j].kind = "message"}} \ {NoType}

RECURSIVE Closure(_, _)
Closure(S, n) ==
    IF n = 0 THEN S
    ELSE Closure(S \cup UNION {Refs(mt) : mt \in {x \in S : ~BuiltIn(x)}}, n - 1)

\* mt and the message types reachable from it that are not built in.
Reachable(mt) == {x \in Closure({mt}, Cardinality(AllMessages)) : ~BuiltIn(x)}

\* Every converter a conversion of an mt instance can look up is there:
\* the message converters and constructors of the reachable types, the
\* converters of their fields and the projections of their enums.
FullyRegistered(mt) ==
    \A x \in Reachable(mt) :
        /\ x \in DOMAIN m2p /\ x \in DOMAIN p2m /\ x \in DOMAIN c
        /\ \A i \in 1..Len(Fields(x)) :
              /\ Fields(x)[i].full_name \in DOMAIN f2p
              /\ Fields(x)[i].full_name \in DOMAIN p2f
              /\ Fields(x)[i].kind = "enum" =>
                    /\ Fields(x)[i].enum_type \in DOMAIN i2s
                    /\ Fields(x)[i].enum_type \in DOMAIN s2i

RECURSIVE HoldsNotImplemented(_)
\* The value is, or holds in a populated field, a message of a type that
\* _register_google_types registers a failure for.
HoldsNotImplemented(v) ==
    CASE v.k = "msg" ->
           \/ v.t \in NotImplementedTypes
           \/ \E n \in DOMAIN v.f : HoldsNotImplemented(v.f[n])
      [] v.k = "list" -> \E i \in 1..Len(v.v) : HoldsNotImplemented(v.v[i])
      [] v.k = "map" -> \E x \in DOMAIN v.v : HoldsNotImplemented(v.v[x])
      [] OTHER -> FALSE

NotImplementedErrors ==
    {Err("NotImplementedError", n) : n \in NotImplementedTypes}

\* The fields of message type mt whose type is a not-implemented one.
NotImplementedFields(mt) ==
    {Fields(mt)[i].name : i \in {j \in 1..Len(Fields(mt)) :
                                    Fields(mt)[j].message_type \in NotImplementedTypes}}

\* data is a container for message type mt with an entry other than None
\* for a field of a not-implemented type.
PopulatesNotImplemented(mt, data) ==
    /\ data.k = "dict"
    /\ \E n \in NotImplementedFields(mt) : HasKey(data, n) /\ Get(data, n) # None

\* data with the entries of the not-implemented fields of mt set to None.
Blanked(mt, data) ==
    Dict([i \in 1..Len(data.v) |->
             IF data.v[i].key \in NotImplementedFields(mt)
             THEN [key |-> data.v[i].key, val |-> None]
             ELSE data.v[i]])

\* register_message_type ran to its end for mt (the constructor is the
\* last thing it records) and the enums that the fields of mt and of the
\* types reachable from it refer to are registered.
Registered(mt) ==
    /\ mt \in DOMAIN m2p /\ mt \in DOMAIN p2m /\ mt \in DOMAIN c
    /\ \A x \in Reachable(mt) : \A i \in 1..Len(Fields(x)) :
           Fields(x)[i].kind = "enum" =>
               /\ Fields(x)[i].enum_type \in DOMAIN i2s
               /\ Fields(x)[i].enum_type \in DOMAIN s2i

\* C5: for a registered message type whose enums are registered, proto2py
\* succeeds on every instance and py2proto on its result gives back the
\* instance.
C5_RoundTripAll ==
    \A t \in Threads :
        /\ (/\ ret[t].op = "proto2py"
            /\ ret[t].cls \in UserMessages
            /\ Registered(ret[t].cls))
               => ~IsErr(ret[t].result)
        /\ (/\ ret[t].op = "py2proto"
            /\ ret[t].origin # None
            /\ ret[t].cls \in UserMessages
            /\ Registered(ret[t].cls))
               => ret[t].result = ret[t].origin

\* The round trip gives back the instance when every converter it looks
\* up is there and the instance holds no populated field of a
\* not-implemented well-known type.
RoundTripWhenComplete ==
    \A t \in Threads :
        /\ (/\ ret[t].op = "proto2py"
            /\ ret[t].cls \in UserMessages
            /\ FullyRegistered(ret[t].cls)
            /\ ~HoldsNotImplemented(ret[t].input))
               => ~IsErr(ret[t].result)
        /\ (/\ ret[t].op = "py2proto"
            /\ ret[t].origin # None
            /\ ret[t].cls \in UserMessages
            /\ FullyRegistered(ret[t].cls))
               => ret[t].result = ret[t].origin

\* A B holding a repeated A, the enum code 1 and a map entry with a Node
\* value came back from the round trip.
RoundTripReached ==
    /\ ret[MainThread].op = "py2proto"
    /\ ret[MainThread].origin =
           BValue(<<AValue(None)>>, 1, None, [x \in {"k"} |-> Chain(1)])
    /\ ret[MainThread].result = ret[MainThread].origin

\* B was registered without a failure and so was the Color enum, and
\* proto2py on a B whose map holds a Node raised KeyError for pkg.Node.
MapValueTypeMissing ==
    /\ faults = 0
    /\ Registered("pkg.B")
    /\ ret[MainThread].op = "proto2py"
    /\ ret[MainThread].input =
           BValue(<<>>, 0, None, [x \in {"k"} |-> Chain(1)])
    /\ ret[MainThread].result = Err("KeyError", "pkg.Node")

NotImplementedTypesFail ==
    \A t \in Threads :
        (/\ ret[t].op \in {"proto2py", "py2proto"}
         /\ ret[t].cls \in NotImplementedTypes)
            => ret[t].result = Err("NotImplementedError", ret[t].cls)

\* C7 as stated: converting a message of a not-implemented type, or a
\* message of a registered type that holds a populated field of such a
\* type, always raises NotImplementedError naming the type.
C7_NotImplementedAlways ==
    /\ NotImplementedTypesFail
    /\ \A t \in Threads :
          /\ (/\ ret[t].op = "proto2py"
              /\ ret[t].cls \in UserMessages
              /\ ret[t].cls \in DOMAIN m2p
              /\ ret[t].cls \in DOMAIN c
              /\ HoldsNotImplemented(ret[t].input))
                 => ret[t].result \in NotImplementedErrors
          /\ (/\ ret[t].op = "py2proto"
              /\ ret[t].cls \in UserMessages
              /\ ret[t].cls \in DOMAIN p2m
              /\ ret[t].cls \in DOMAIN c
              /\ PopulatesNotImplemented(ret[t].cls, ret[t].input))
                 => ret[t].result \in NotImplementedErrors

\* C7: converting a message of a not-implemented type always raises
\* NotImplementedError naming the type; converting a message that holds a
\* populated field of such a type does when the message type is fully
\* registered (and, for py2proto, the rest of the container is what
\* proto2py returns for some instance).
C7_NotImplemented ==
    /\ NotImplementedTypesFail
    /\ \A t \in Threads :
          /\ (/\ ret[t].op = "proto2py"
              /\ ret[t].cls \in UserMessages
              /\ FullyRegistered(ret[t].cls)
              /\ HoldsNotImplemented(ret[t].input))
                 => ret[t].result \in NotImplementedErrors
          /\ (/\ ret[t].op = "py2proto"
              /\ ret[t].cls \in UserMessages
              /\ FullyRegistered(ret[t].cls)
              /\ PopulatesNotImplemented(ret[t].cls, ret[t].input)
              /\ \E m \in MessageValues :
                     /\ m.t = ret[t].cls
                     /\ Call("m2p", m.t, m) = Blanked(ret[t].cls, ret[t].input))
                 => ret[t].result \in NotImplementedErrors

\* proto2py on a B with its Timestamp field populated raised
\* NotImplementedError naming google.protobuf.Timestamp.
C7_Witness ==
    /\ ret[MainThread].op = "proto2py"
    /\ ret[MainThread].cls = "pkg.B"
    /\ ret[MainThread].input.f.ts = TimestampValue
    /\ ret[MainThread].result =
           Err("NotImplementedError", "google.protobuf.Timestamp")

\* Thread t takes a step that is a call of the conversion entry point op.
Converts(t, op) == ret'[t] # ret[t] /\ ret'[t].op = op

\* C8: a conversion for a schema without an entry raises KeyError to the
\* caller; it returns nothing and registers nothing.
C8_UnknownSchemaRaises ==
    [][\A t \in Threads :
          /\ (Converts(t, "proto2py") /\ ret'[t].cls \notin DOMAIN m2p)
                => /\ ret'[t].result = Err("KeyError", ret'[t].cls)
                   /\ ret'[t].cls \notin DOMAIN m2p'
          /\ (Converts(t, "py2proto") /\ ret'[t].cls \notin DOMAIN p2m)
                => /\ ret'[t].result = Err("KeyError", ret'[t].cls)
                   /\ ret'[t].cls \notin DOMAIN p2m']_vars

\* proto2py was called with a Node before Node was registered.
C8_Witness ==
    /\ ret[MainThread].op = "proto2py"
    /\ ret[MainThread].cls = "pkg.Node"
    /\ "pkg.Node" \notin DOMAIN m2p
    /\ ret[MainThread].result = Err("KeyError", "pkg.Node")

\* The result a conversion gave is the result the same call gives now.
Repeatable ==
    \A t \in Threads :
        /\ ret[t].op = "proto2py"
              => ret[t].result = Call("m2p", ret[t].cls, ret[t].input)
        /\ ret[t].op = "py2proto"
              => ret[t].result = Call("p2m", ret[t].cls, ret[t].input)

-----------------------------------------------------------------------------
(* create_enum_dict on its own.                                            *)

\* The outcome of a create_enum_dict call; prev is what the caller held.
EnumOutcome(enum_type, mode, prefix, prev) ==
    [op |-> "create_enum_dict", enum_type |-> enum_type,
     mode |-> mode, prefix |-> prefix,
     result |-> create_enum_dict(enum_type, mode, prefix),
     prev |-> prev]

\* A call of create_enum_dict.
call_create_enum_dict(t, enum_type, mode, prefix) ==
    /\ Ready(t)
    /\ ret' = [ret EXCEPT ![t] = EnumOutcome(enum_type, mode, prefix, NoCall)]
    /\ UNCHANGED <<stores, registering, stack, exc, faults, locking>>

\* A caller that holds the dictionary of one mode asks for another mode of
\* the same enum with the same prefix, and then holds both.
call_create_enum_dict_again(t, mode) ==
    /\ Idle(t)
    /\ ret[t].op = "create_enum_dict"
    /\ ret[t].prev = NoCall
    /\ ret' = [ret EXCEPT ![t] =
                  EnumOutcome(ret[t].enum_type, mode, ret[t].prefix,
                              [op |-> "create_enum_dict", mode |-> ret[t].mode,
                               result |-> ret[t].result])]
    /\ UNCHANGED <<stores, registering, stack, exc, faults, locking>>

NextEnum ==
    \/ /\ Ready(MainThread)
       /\ \E enum_type \in EnumInputs, mode \in Modes, prefix \in Prefixes :
              call_create_enum_dict(MainThread, enum_type, mode, prefix)
    \/ \E mode \in Modes : call_create_enum_dict_again(MainThread, mode)
    \/ \E et \in UnprefixedEnums : register_enum_type(MainThread, et)
    \/ take(MainThread)

SpecEnum == Init /\ [][NextEnum]_vars

\* The prefix derived from the name of each enum type in use.
DerivedPrefix(name) ==
    IF name = <<"C","o","l","o","r">> THEN <<"C","O","L","O","R","_">>
    ELSE <<"N","U","L","L","_","V","A","L","U","E","_">>

\* The prefix in force in the call whose outcome is r.
InForce(r) == IF r.prefix = PyNone THEN DerivedPrefix(r.enum_type.name) ELSE r.prefix

\* Every value name of the enum in r starts with the prefix in force.
Conventional(r) ==
    \A i \in 1..Len(r.enum_type.values) :
        LET nm == r.enum_type.values[i].name
        IN  /\ Len(nm) >= Len(InForce(r))
            /\ \A j \in 1..Len(InForce(r)) : nm[j] = InForce(r)[j]

\* The name nm without the prefix in force.
Stripped(r, nm) ==
    [j \in 1..(Len(nm) - Len(InForce(r))) |-> nm[j + Len(InForce(r))]]

\* C10: for an enum without aliases whose value names all start with the
\* prefix in force, int2str maps each code to its name without the
\* prefix, str2int maps each such name to its code, and the two are
\* inverses of each other.
C10_EnumDictsInverse ==
    \A t \in Threads :
        LET r  == ret[t]
            vs == r.enum_type.values
        IN  (/\ r.op = "create_enum_dict"
             /\ NoAlias(r.enum_type)
             /\ Conventional(r))
            => /\ r.mode = "int2str" =>
                     /\ r.result.raised = "none"
                     /\ DOMAIN r.result.value = {vs[i].number : i \in 1..Len(vs)}
                     /\ \A i \in 1..Len(vs) :
                            r.result.value[vs[i].number] = Stripped(r, vs[i].name)
               /\ r.mode = "str2int" =>
                     /\ r.result.raised = "none"
                     /\ DOMAIN r.result.value =
                            {Stripped(r, vs[i].name) : i \in 1..Len(vs)}
                     /\ \A i \in 1..Len(vs) :
                            r.result.value[Stripped(r, vs[i].name)] = vs[i].number
               /\ (r.mode = "str2int" /\ r.prev # NoCall /\ r.prev.mode = "int2str") =>
                     /\ \A code \in DOMAIN r.prev.result.value :
                            r.result.value[r.prev.result.value[code]] = code
                     /\ \A nm \in DOMAIN r.result.value :
                            r.prev.result.value[r.result.value[nm]] = nm

\* Color {COLOR_RED = 0; COLOR_BLUE = 1} with the derived prefix gave
\* {0: "RED", 1: "BLUE"} and then {"RED": 0, "BLUE": 1}.
C10_Witness ==
    LET r == ret[MainThread]
    IN  /\ r.op = "create_enum_dict"
        /\ r.enum_type = [name |-> EnumDescriptor("pkg.Color").name,
                          values |-> EnumDescriptor("pkg.Color").values]
        /\ r.prefix = PyNone
        /\ r.mode = "str2int"
        /\ r.prev # NoCall
        /\ r.prev.mode = "int2str"
        /\ r.prev.result.value =
               [code \in {0, 1} |-> IF code = 0 THEN <<"R","E","D">>
                                    ELSE <<"B","L","U","E">>]
        /\ r.result.value =
               [nm \in {<<"R","E","D">>, <<"B","L","U","E">>} |->
                   IF nm = <<"R","E","D">> THEN 0 ELSE 1]

\* The values of the enum in r, and what mode r was called with.
ValuesOf(r) == r.enum_type.values

ValidMode(r) == r.mode \in {"int2str", "str2int"}

\* The mapping in r is over the full value names: codes to names, or
\* names to codes.
Unstripped(r) ==
    LET vs == ValuesOf(r)
    IN  /\ r.mode = "int2str" =>
              /\ DOMAIN r.result.value = {vs[i].number : i \in 1..Len(vs)}
              /\ \A n \in DOMAIN r.result.value :
                     \E i \in 1..Len(vs) :
                         vs[i].number = n /\ r.result.value[n] = vs[i].name
        /\ r.mode = "str2int" =>
              /\ DOMAIN r.result.value = {vs[i].name : i \in 1..Len(vs)}
              /\ \A i \in 1..Len(vs) : r.result.value[vs[i].name] = vs[i].number

\* C11: with an explicit prefix create_enum_dict raises the "prefix is not
\* common" ValueError exactly when some value name does not start with the
\* prefix; so an enum without values passes and gives an empty mapping,
\* and the empty prefix passes and strips nothing.
C11_ExplicitPrefix ==
    \A t \in Threads :
        LET r == ret[t]
        IN  (r.op = "create_enum_dict" /\ r.prefix # PyNone)
            => /\ (r.result.why = "prefix is not common") <=> ~Conventional(r)
               /\ (r.result.why = "prefix is not common")
                     => r.result.raised = "ValueError"
               /\ (ValuesOf(r) = <<>> /\ ValidMode(r))
                     => r.result.raised = "none" /\ DOMAIN r.result.value = {}
               /\ (r.prefix = <<>> /\ ValidMode(r))
                     => r.result.raised = "none" /\ Unstripped(r)

\* create_enum_dict was called with RED and BLUE and the prefix "X_" and
\* raised the ValueError of the prefix test.
C11_Witness ==
    LET r == ret[MainThread]
    IN  /\ r.op = "create_enum_dict"
        /\ r.prefix = <<"X","_">>
        /\ ValuesOf(r) = <<[name |-> <<"R","E","D">>, number |-> 0],
                           [name |-> <<"B","L","U","E">>, number |-> 1]>>
        /\ r.result.raised = "ValueError"
        /\ r.result.why = "prefix is not common"

\* C12: without an explicit prefix, when some value name does not start
\* with the derived prefix, create_enum_dict emits the advisory and
\* returns the mapping over the full names; register_enum_type on
\* enum Color { RED = 0; BLUE = 1; } returns with both entries stored.
C12_DerivedPrefixAdvisory ==
    \A t \in Threads :
        LET r == ret[t]
        IN  /\ (/\ r.op = "create_enum_dict"
                /\ r.prefix = PyNone
                /\ ~Conventional(r))
                  => /\ r.result.why # "prefix is not common"
                     /\ ValidMode(r) => /\ r.result.raised = "none"
                                         /\ r.result.warned
                                         /\ Unstripped(r)
            /\ (r.op = "register_enum_type" /\ r.arg \in UnprefixedEnums)
                  => /\ r.outcome = "returned"
                     /\ r.arg \in DOMAIN i2s /\ r.arg \in DOMAIN s2i
                     /\ i2s[r.arg] = [n \in {0, 1} |->
                                         IF n = 0 THEN <<"R","E","D">>
                                         ELSE <<"B","L","U","E">>]
                     /\ s2i[r.arg] = [nm \in {<<"R","E","D">>, <<"B","L","U","E">>} |->
                                         IF nm = <<"R","E","D">> THEN 0 ELSE 1]

\* register_enum_type returned for enum Color { RED = 0; BLUE = 1; } and
\* the int2str entry is {0: "RED", 1: "BLUE"}.
C12_Witness ==
    /\ ret[MainThread].op = "register_enum_type"
    /\ ret[MainThread].arg = "alt.Color"
    /\ ret[MainThread].outcome = "returned"
    /\ "alt.Color" \in DOMAIN i2s
    /\ i2s["alt.Color"][1] = <<"B","L","U","E">>
-----------------------------------------------------------------------------
(* pascal2snake on its own.                                                *)

NameChars == {"A", "B", "c"}

\* The names pascal2snake is called with.
NameInputs ==
    UNION {[1..n -> NameChars] : n \in 0..MaxNameLen}
        \cup {<<"I","D","C","o","d","e">>, <<"F","o","o","B","a","r">>,
              <<"N","u","l","l","V","a","l","u","e">>}

call_pascal2snake(t, name) ==
    /\ Ready(t)
    /\ ret' = [ret EXCEPT ![t] =
                  [op |-> "pascal2snake", name |-> name,
                   result |-> pascal2snake(name)]]
    /\ UNCHANGED <<stores, registering, stack, exc, faults, locking>>

NextNames ==
    \/ /\ Ready(MainThread)
       /\ \E name \in NameInputs : call_pascal2snake(MainThread, name)
    \/ take(MainThread)

SpecNames == Init /\ [][NextNames]_vars

\* An upper-case letter stands at position i of name: a segment starts there.
UpperAt(name, i) == i \in 1..Len(name) /\ name[i] \in UpperSet

\* Where the first segment starts (past the end when there is none).
FirstUpper(name) ==
    CHOOSE i \in 1..(Len(name) + 1) :
        /\ i = Len(name) + 1 \/ UpperAt(name, i)
        /\ \A k \in 1..(i - 1) : ~UpperAt(name, k)

\* The length of the segment that starts at position i.
SegLenAt(name, i) ==
    (CHOOSE j \in (i + 1)..(Len(name) + 1) :
         /\ j = Len(name) + 1 \/ UpperAt(name, j)
         /\ \A k \in (i + 1)..(j - 1) : ~UpperAt(name, k)) - i

\* Where the segment before the one at position i starts.
PrevStart(name, i) ==
    CHOOSE k \in 1..(i - 1) :
        /\ UpperAt(name, k)
        /\ \A j \in (k + 1)..(i - 1) : ~UpperAt(name, j)

\* What stands between the segment at i and the one before it: nothing
\* between two one-character segments, an underscore otherwise.
SepInCode(name, i) ==
    IF SegLenAt(name, PrevStart(name, i)) = 1 /\ SegLenAt(name, i) = 1
    THEN <<>> ELSE <<"_">>

\* The same by the rule with the two cases exchanged: nothing between two
\* longer segments of one group, an underscore otherwise.
SepAsStated(name, i) ==
    IF /\ SegLenAt(name, PrevStart(name, i)) = SegLenAt(name, i)
       /\ SegLenAt(name, i) > 1
    THEN <<>> ELSE <<"_">>

RECURSIVE Snake(_, _, _)
\* The lower-cased characters of name from position i on, each segment
\* but the first preceded by its separator.
Snake(name, i, stated) ==
    IF i > Len(name) THEN <<>>
    ELSE (IF UpperAt(name, i) /\ i > FirstUpper(name)
          THEN (IF stated THEN SepAsStated(name, i) ELSE SepInCode(name, i))
          ELSE <<>>)
         \o <<LowerChar(name[i])>> \o Snake(name, i + 1, stated)

\* C13 as stated: one-character segments are joined with "_" and longer
\* segments of equal length with nothing, so that IDCode gives i_d_code.
C13_SnakeAsStated ==
    \A t \in Threads :
        ret[t].op = "pascal2snake"
            => ret[t].result = Snake(ret[t].name, FirstUpper(ret[t].name), TRUE)

\* C13: pascal2snake lower-cases the segments and puts "_" between two
\* neighbouring segments unless both are one character long, in which
\* case it puts nothing; IDCode gives id_code.
C13_Snake ==
    \A t \in Threads :
        ret[t].op = "pascal2snake"
            => ret[t].result = Snake(ret[t].name, FirstUpper(ret[t].name), FALSE)

\* pascal2snake was called with IDCode and returned id_code.
C13_Witness ==
    /\ ret[MainThread].op = "pascal2snake"
    /\ ret[MainThread].name = <<"I","D","C","o","d","e">>
    /\ ret[MainThread].result = <<"i","d","_","c","o","d","e">>
-----------------------------------------------------------------------------
(* Several threads registering on one registry, with or without a lock     *)
(* around every call.                                                      *)

\* The message types the threads register.
SharedCalls == {"pkg.Node", "pkg.A"}

\* A fresh registry whose callers either all wrap every call in one
\* registry-wide lock or use none.
InitShared == Constructed /\ locking \in BOOLEAN

\* With the lock, a thread is inside a call only while no other thread is.
MayStep(t) == locking => \A u \in Threads \ {t} : Idle(u)

StepShared(t) ==
    \/ /\ MayStep(t)
       /\ \E mt \in SharedCalls : call_register_message_type(t, mt)
    \/ MayStep(t) /\ rm_check(t)
    \/ MayStep(t) /\ rm_add(t)
    \/ MayStep(t) /\ rm_m2p(t)
    \/ MayStep(t) /\ rm_p2m(t)
    \/ MayStep(t) /\ rm_fields(t)
    \/ MayStep(t) /\ rm_c(t)
    \/ MayStep(t) /\ rm_finally(t)
    \/ MayStep(t) /\ rf_check(t)
    \/ MayStep(t) /\ rf_f2p(t)
    \/ MayStep(t) /\ rf_p2f(t)
    \/ MayStep(t) /\ raise(t)
    \/ MayStep(t) /\ unwind(t)
    \/ take(t)

NextShared == \E t \in Threads : StepShared(t)

SpecShared == InitShared /\ [][NextShared]_vars

\* Every converter and the constructor of mt and of its fields is stored.
Complete(mt) ==
    /\ mt \in DOMAIN m2p /\ mt \in DOMAIN p2m /\ mt \in DOMAIN c
    /\ \A i \in 1..Len(Fields(mt)) :
           /\ Fields(mt)[i].full_name \in DOMAIN f2p
           /\ Fields(mt)[i].full_name \in DOMAIN p2f

\* The register_message_type call of thread t returned normally although
\* the message type is not completely registered.
ReturnedIncomplete(t) ==
    /\ ret[t].op = "register_message_type"
    /\ ret[t].outcome = "returned"
    /\ ~Complete(ret[t].arg)

\* The register_message_type call of thread t raised KeyError from
\* _registering.remove in its finally clause.
FailedClearing(t) ==
    /\ ret[t].op = "register_message_type"
    /\ ret[t].outcome = "KeyError"

\* C14: when every call is wrapped in one registry-wide lock, no
\* register_message_type call returns normally from an incompletely
\* registered message type and none fails clearing the in-progress marker.
C14_LockedIsSafe ==
    locking => \A t \in Threads : ~ReturnedIncomplete(t) /\ ~FailedClearing(t)

\* The same when, besides, no step of a registration fails.
LockedIsSafeWithoutFailure ==
    (locking /\ faults = 0)
        => \A t \in Threads : ~ReturnedIncomplete(t) /\ ~FailedClearing(t)

\* Without a lock and without a failing step, one thread's call failed
\* clearing the in-progress marker.
C14_Witness ==
    /\ ~locking
    /\ faults = 0
    /\ \E t \in Threads : FailedClearing(t)

\* Without a lock and without a failing step, one thread's call returned
\* normally while the other thread had stored only part of the entries.
SharedReturnedIncomplete ==
    /\ ~locking
    /\ faults = 0
    /\ \E t \in Threads : ReturnedIncomplete(t)
-----------------------------------------------------------------------------
(* The in-progress set.                                                    *)

\* The messages whose register_message_type activation has added them to
\* the in-progress set and not yet run its finally clause.
ActiveRegistrations ==
    UNION {{stack[t][i].arg :
               i \in {j \in 1..Len(stack[t]) :
                         /\ stack[t][j].fn = "register_message_type"
                         /\ stack[t][j].pc \notin {"check", "add"}}}
           : t \in Threads}

\* C15: the in-progress set holds exactly the messages whose own
\* register_message_type call is active; when no registration call is
\* executing, whether the calls before returned or failed, it is empty.
C15_InProgressOnlyWhileActive ==
    /\ registering = ActiveRegistrations
    /\ (\A t \in Threads : Idle(t)) => registering = {}

\* A register_message_type call has failed, no call is executing and the
\* in-progress set is empty.
C15_Witness ==
    /\ ret[MainThread].op = "register_message_type"
    /\ ret[MainThread].outcome = "Error"
    /\ \A t \in Threads : Idle(t)
    /\ registering = {}
-----------------------------------------------------------------------------
(* What a completed registration leaves in the namespace.                  *)

\* mt and every message type reachable from it that is not built in has
\* its two message converters and its constructor, and every field of
\* these types has its two field converters.
ConvertersPresent(mt) ==
    \A x \in Reachable(mt) :
        /\ x \in DOMAIN m2p /\ x \in DOMAIN p2m /\ x \in DOMAIN c
        /\ \A i \in 1..Len(Fields(x)) :
               /\ Fields(x)[i].full_name \in DOMAIN f2p
               /\ Fields(x)[i].full_name \in DOMAIN p2f

\* C16: after register_message_type(M) returned normally, M and every
\* message type reachable from M through singular, repeated and map
\* fields has its converters and constructor, and their fields have
\* their converters.
C16_ReachableRegistered ==
    \A t \in Threads :
        (/\ ret[t].op = "register_message_type"
         /\ ret[t].outcome = "returned"
         /\ ret[t].arg \in UserMessages)
            => ConvertersPresent(ret[t].arg)

\* On a registry on which no step ever failed, register_message_type(B)
\* returned normally and Node, the value type of B's map field, has no
\* converter.
C16_Witness ==
    /\ faults = 0
    /\ ret[MainThread].op = "register_message_type"
    /\ ret[MainThread].arg = "pkg.B"
    /\ ret[MainThread].outcome = "returned"
    /\ Complete("pkg.B") /\ Complete("pkg.A")
    /\ "pkg.Node" \notin DOMAIN m2p
-----------------------------------------------------------------------------
(* Registration in any order, followed by conversion.                      *)

\* A second caller of the same single-threaded program, which converts
\* between two calls of the first and keeps what it got.
ObserverThread == 2

\* The message the second caller converts: a B with the enum code 1.
ObservedValue == BValue(<<>>, 1, None, EmptyDict)

\* The messages the first caller converts.
OrderValues == {m \in BValues \cup AValues : ~HoldsNotImplemented(m)}

observe(t) ==
    /\ \A u \in Threads : Idle(u)
    /\ proto2py(t, ObservedValue)

NextOrder ==
    \/ register_enum_type(MainThread, "pkg.Color")
    \/ \E mt \in UserMessages : call_register_message_type(MainThread, mt)
    \/ rm_check(MainThread)
    \/ rm_add(MainThread)
    \/ rm_m2p(MainThread)
    \/ rm_p2m(MainThread)
    \/ rm_fields(MainThread)
    \/ rm_c(MainThread)
    \/ rm_finally(MainThread)
    \/ rf_check(MainThread)
    \/ rf_f2p(MainThread)
    \/ rf_p2f(MainThread)
    \/ take(MainThread)
    \/ /\ Ready(MainThread)
       /\ \E message \in OrderValues : proto2py(MainThread, message)
    \/ convert_back(MainThread)
    \/ observe(ObserverThread)

SpecOrder == Init /\ [][NextOrder]_vars

\* The short names of the enum values, by enum and code.
ShortNames ==
    [et \in {"pkg.Color"} |->
        [n \in {0, 1} |-> IF n = 0 THEN <<"R","E","D">> ELSE <<"B","L","U","E">>]]

RECURSIVE Direct(_)
RECURSIVE DirectField(_, _)

\* The container of message v, written down from the schema alone.
Direct(v) ==
    IF v.t \in NotImplementedTypes THEN Err("NotImplementedError", v.t)
    ELSE IF v.t \in GOOGLE_PROTOBUF_WRAPPERS THEN v.f.value
    ELSE LET fs  == Fields(v.t)
             out == [i \in 1..Len(fs) |-> DirectField(fs[i], v.f[fs[i].name])]
         IN  FirstErrOr(out, Dict([i \in 1..Len(fs) |-> Pair(fs[i].name, out[i])]))

DirectField(field, x) ==
    IF field.kind = "scalar" THEN x
    ELSE IF field.kind = "enum" THEN StrV(ShortNames[field.enum_type][x.v])
    ELSE IF MapEntry(field.message_type)
    THEN MapV([k \in DOMAIN x.v |-> Direct(x.v[k])])
    ELSE IF field.repeated
    THEN LET out == [i \in 1..Len(x.v) |-> Direct(x.v[i])]
         IN  FirstErrOr(out, ListV(out))
    ELSE IF x = None THEN None
    ELSE Direct(x)

-----------------------------------------------------------------------------
(* The key sets of the namespace.                                          *)

\* C18: no step, of a registration that succeeds or fails or of a
\* conversion, removes a key from any of the seven stores.
C18_KeysNeverRemoved ==
    [][/\ DOMAIN m2p \subseteq DOMAIN m2p' /\ DOMAIN p2m \subseteq DOMAIN p2m'
       /\ DOMAIN f2p \subseteq DOMAIN f2p' /\ DOMAIN p2f \subseteq DOMAIN p2f'
       /\ DOMAIN i2s \subseteq DOMAIN i2s' /\ DOMAIN s2i \subseteq DOMAIN s2i'
       /\ DOMAIN c \subseteq DOMAIN c']_vars

\* A registration of B failed after it had stored entries, and the
\* entries are still there.
C18_Witness ==
    /\ ret[MainThread].op = "register_message_type"
    /\ ret[MainThread].arg = "pkg.B"
    /\ ret[MainThread].outcome = "Error"
    /\ "pkg.B" \in DOMAIN m2p
    /\ "pkg.B.a" \in DOMAIN f2p
-----------------------------------------------------------------------------
(* How often a schema's registration body runs.                            *)

\* The step of thread t that enters the body of register_message_type:
\* the first statement after the m2p guard.
BodyStarts(t) ==
    /\ Running(t, "register_message_type", "add")
    /\ stack'[t] # stack[t]

\* The step of thread t that leaves the body, through the finally clause
\* every exit of the body takes.
BodyEnds(t) ==
    /\ ~Idle(t)
    /\ Top(t).fn = "register_message_type"
    /\ Top(t).pc = "finally"
    /\ stack'[t] # stack[t]

\* C19: as long as nothing has failed, the body of register_message_type
\* is entered only for a schema that has no m2p entry and is not being
\* registered, it leaves the schema with an m2p entry, and m2p entries
\* stay; so the body of a schema runs at most once, whatever the calls
\* and whatever fields reference the schema.
C19_BodyAtMostOnce ==
    [][faults' = 0 =>
         /\ \A t \in Threads :
              /\ BodyStarts(t) =>
                    Top(t).arg \notin (DOMAIN m2p \cup registering)
              /\ BodyEnds(t) => Top(t).arg \in DOMAIN m2p'
         /\ DOMAIN m2p \subseteq DOMAIN m2p']_vars

\* Node is registered, and a later registration of its field next, which
\* references Node again, has called register_message_type for Node; the
\* call is at the guard and will return without entering the body.
C19_Witness ==
    /\ faults = 0
    /\ Len(stack[MainThread]) = 2
    /\ stack[MainThread][1].fn = "register_field_type"
    /\ stack[MainThread][1].arg = "pkg.Node.next"
    /\ Running(MainThread, "register_message_type", "check")
    /\ Top(MainThread).arg = "pkg.Node"
    /\ "pkg.Node" \in DOMAIN c
    /\ registering = {}
-----------------------------------------------------------------------------
(* The in-progress set and the m2p guard.                                  *)

\* C20: on one thread, whenever register_field_type is at its test of the
\* in-progress set, every schema in the set has an m2p entry, so the guard
\* of register_message_type would have returned at once for each of them.
C20_InProgressHaveM2p ==
    \A t \in Threads :
        Running(t, "register_field_type", "check") =>
            \A mt \in registering : AlreadyRegistered(mt)

\* A and B are both being registered, and register_field_type is at its
\* test for a field whose type is one of them, which it will skip.
C20_Witness ==
    /\ Running(MainThread, "register_field_type", "check")
    /\ FieldByName(Top(MainThread).arg).message_type \in registering
    /\ registering = {"pkg.A", "pkg.B"}
====
